---- MODULE Spec2Model ----
(***************************************************************************)
(* B+ tree of src/BPlusTree.py: BPlusTree_Node objects live in a heap      *)
(* (a sequence of node records addressed by index, None = NIL), BPlusTree  *)
(* holds _order, _root, _leaf and len.  Every public method is one action; *)
(* an exception that escapes a method leaves the heap as mutated so far.   *)
(***************************************************************************)
EXTENDS Integers, Sequences, FiniteSets, TLC

\* ---- bounds of the model ------------------------------------------------
MaxKey == 4
MaxVal == 2
MaxOps == 9
MaxOrder == 4
MaxShapeKey == 5
MaxShapeOps == 10
MaxRun == 20
MaxFill == 6
MaxMixKey == 7
MaxMixOps == 12

Keys == 1..MaxKey
Values == 1..MaxVal
Orders == 3..MaxOrder
ShapeKeys == 1..MaxShapeKey

NIL == 0

VARIABLES order, nodes, root, leaf, len, exc, steps, ref, allowed

vars == <<order, nodes, root, leaf, len, exc, steps, ref, allowed>>

\* ---- Python list primitives ---------------------------------------------
\* 0-based index i (negative counts from the end) is inside the list
InRange(s, i) == (i >= 0 /\ i < Len(s)) \/ (i < 0 /\ -i <= Len(s))

\* s[i] for a 0-based, possibly negative, index that is in range
At(s, i) == IF i >= 0 THEN s[i + 1] ELSE s[Len(s) + i + 1]

\* s[i] = x
SetAt(s, i, x) == [s EXCEPT ![IF i >= 0 THEN i + 1 ELSE Len(s) + i + 1] = x]

\* s[:i] and s[i:] for 0 <= i
Take(s, i) == SubSeq(s, 1, IF i > Len(s) THEN Len(s) ELSE i)
Drop(s, i) == SubSeq(s, i + 1, Len(s))

\* list.insert(i, x): the index is clamped into 0..len
ListInsert(s, i, x) ==
    LET j == IF i < 0 THEN (IF Len(s) + i < 0 THEN 0 ELSE Len(s) + i)
             ELSE IF i > Len(s) THEN Len(s) ELSE i
    IN  Take(s, j) \o <<x>> \o Drop(s, j)

\* list.pop(i) for an index in range: the list without element i
ListPop(s, i) ==
    LET j == IF i >= 0 THEN i ELSE Len(s) + i
    IN  Take(s, j) \o Drop(s, j + 1)

\* bisect.bisect_right(a, x): binary search, lo = 0, hi = len(a)
RECURSIVE bisect_right_loop(_, _, _, _)
bisect_right_loop(a, x, lo, hi) ==
    IF lo < hi
    THEN LET mid == (lo + hi) \div 2
         IN  IF x < a[mid + 1] THEN bisect_right_loop(a, x, lo, mid)
             ELSE bisect_right_loop(a, x, mid + 1, hi)
    ELSE lo

bisect_right(a, x) == bisect_right_loop(a, x, 0, Len(a))

\* bisect.bisect_left(a, x)
RECURSIVE bisect_left_loop(_, _, _, _)
bisect_left_loop(a, x, lo, hi) ==
    IF lo < hi
    THEN LET mid == (lo + hi) \div 2
         IN  IF a[mid + 1] < x THEN bisect_left_loop(a, x, mid + 1, hi)
             ELSE bisect_left_loop(a, x, lo, mid)
    ELSE lo

bisect_left(a, x) == bisect_left_loop(a, x, 0, Len(a))

\* ---- BPlusTree_Node -----------------------------------------------------
\* BPlusTree_Node.__init__(order, parent)
NewNode(parent) ==
    [keys |-> <<>>, values |-> <<>>, children |-> <<>>,
     parent |-> parent, left |-> NIL, right |-> NIL, next |-> NIL]

\* ceil(order/2)-1
MinKeys(o) == ((o + 1) \div 2) - 1

full(h, n) == Len(h.nodes[n].keys) >= h.order
empty(h, n) == Len(h.nodes[n].keys) <= 0
is_leaf(h, n) == Len(h.nodes[n].children) = 0
is_root(h, n) == h.nodes[n].parent = NIL
valid(h, n) == is_root(h, n) \/ Len(h.nodes[n].keys) >= MinKeys(h.order)
borrowable(h, n) == Len(h.nodes[n].keys) > MinKeys(h.order)

\* ---- heap helpers -------------------------------------------------------
\* an exception leaves the method with the heap as it is
Raise(h, e) == [h EXCEPT !.exc = e]

\* allocate a BPlusTree_Node; its address is Len(nodes) + 1
Alloc(h, parent) == [h EXCEPT !.nodes = Append(@, NewNode(parent))]

\* for n in cs: n.parent = p
RECURSIVE Reparent(_, _, _)
Reparent(h, cs, p) ==
    IF cs = <<>> THEN h
    ELSE Reparent([h EXCEPT !.nodes[Head(cs)].parent = p], Tail(cs), p)

\* ---- BPlusTree._split_node ----------------------------------------------
\* splitting a root node (lines 213-214):
\* self._root = node.parent = BPlusTree_Node(); node.parent.children.append(node)
RootSplit(h, n) ==
    [Alloc(h, NIL) EXCEPT !.root = Len(h.nodes) + 1,
                          !.nodes[n].parent = Len(h.nodes) + 1,
                          !.nodes[Len(h.nodes) + 1].children = Append(@, n)]

\* create a new node on the right hand side (lines 215-216):
\* new.left, new.right, node.right = node, node.right, new
NewRight(h, n) ==
    [Alloc(h, h.nodes[n].parent) EXCEPT
        !.nodes[Len(h.nodes) + 1].left = n,
        !.nodes[Len(h.nodes) + 1].right = h.nodes[n].right,
        !.nodes[n].right = Len(h.nodes) + 1]

\* leaf (lines 219-221): the split key stays in new
SplitLeaf(h, n, new, pos) ==
    [h EXCEPT !.nodes[new].keys = Drop(h.nodes[n].keys, pos),
              !.nodes[new].values = Drop(h.nodes[n].values, pos),
              !.nodes[new].next = h.nodes[n].next,
              !.nodes[n].keys = Take(@, pos),
              !.nodes[n].values = Take(@, pos),
              !.nodes[n].next = new]

\* inner node (lines 223-224): the split key moves up
SplitInnerLists(h, n, new, pos) ==
    [h EXCEPT !.nodes[new].keys = Drop(h.nodes[n].keys, pos + 1),
              !.nodes[new].children = Drop(h.nodes[n].children, pos + 1),
              !.nodes[n].keys = Take(@, pos),
              !.nodes[n].children = Take(@, pos + 1)]

\* node.children[-1].right = None (line 225, first target)
CutRight(h, n) == [h EXCEPT !.nodes[At(h.nodes[n].children, -1)].right = NIL]

\* new.children[0].left = None (line 225, second target), then lines 226-227
CutLeft(h, new) ==
    IF Len(h.nodes[new].children) = 0 THEN Raise(h, "IndexError")
    ELSE Reparent([h EXCEPT !.nodes[At(h.nodes[new].children, 0)].left = NIL],
                  h.nodes[new].children, new)

SplitInner(h, n, new, pos) == CutLeft(CutRight(SplitInnerLists(h, n, new, pos), n), new)

\* insert split_key and new into the parent p (lines 228-230)
InsertInParent(h, p, split_key, new) ==
    [h EXCEPT !.nodes[p].keys =
                  ListInsert(@, bisect_right(h.nodes[p].keys, split_key), split_key),
              !.nodes[p].children =
                  ListInsert(@, bisect_right(h.nodes[p].keys, split_key) + 1, new)]

RECURSIVE split_node(_, _)

\* the same without the recursive call of line 231
SplitUp_NoClimb(h, n, new, split_key) ==
    IF h.exc # "none" THEN h
    ELSE InsertInParent(h, h.nodes[n].parent, split_key, new)

\* lines 228-231: recursively check parent nodes
SplitUp(h, n, new, split_key) ==
    IF h.exc # "none" THEN h
    ELSE split_node(InsertInParent(h, h.nodes[n].parent, split_key, new),
                    h.nodes[n].parent)

\* lines 217-227 for the node new just allocated
SplitNew(h, n, new, pos) ==
    SplitUp(IF is_leaf(h, n) THEN SplitLeaf(h, n, new, pos)
            ELSE SplitInner(h, n, new, pos),
            n, new, At(h.nodes[n].keys, pos))

\* lines 211, 215-216: pos = int(len(node.keys)/2)
SplitFull(h, n) ==
    SplitNew(NewRight(h, n), n, Len(h.nodes) + 1, Len(h.nodes[n].keys) \div 2)

split_node(h, n) ==
    IF ~full(h, n) THEN h
    ELSE SplitFull(IF is_root(h, n) THEN RootSplit(h, n) ELSE h, n)

\* ---- BPlusTree._fix_node ------------------------------------------------
\* node.parent.keys[i] = k (lines 266, 280)
SetSeparator(h, p, i, k) ==
    IF ~InRange(h.nodes[p].keys, i) THEN Raise(h, "IndexError")
    ELSE [h EXCEPT !.nodes[p].keys = SetAt(@, i, k)]

\* lines 265-266: node.keys.insert(0, key); node.parent.keys[pos] = split_key
BorrowLeftFinish(h, n, key, split_key, pos) ==
    SetSeparator([h EXCEPT !.nodes[n].keys = ListInsert(@, 0, key)],
                 h.nodes[n].parent, pos, split_key)

\* lines 257-258: node.values.insert(0, node.left.values.pop())
BorrowLeftLeaf(h, n, L, split_key, pos) ==
    IF Len(h.nodes[L].values) = 0 THEN Raise(h, "IndexError")
    ELSE BorrowLeftFinish(
             [h EXCEPT !.nodes[L].values = ListPop(@, -1),
                       !.nodes[n].values = ListInsert(@, 0, At(h.nodes[L].values, -1))],
             n, split_key, split_key, pos)

\* lines 262-264: child becomes the first child of node
LinkFirstChild(h, n, child) ==
    [h EXCEPT !.nodes[child].parent = n,
              !.nodes[child].left = NIL,
              !.nodes[child].right = At(h.nodes[n].children, 0),
              !.nodes[At(h.nodes[n].children, 0)].left = child,
              !.nodes[n].children = ListInsert(@, 0, child)]

\* lines 260-264: key = node.parent.keys[pos]; child = node.left.children.pop()
BorrowLeftInner(h, n, L, split_key, pos) ==
    IF ~InRange(h.nodes[h.nodes[n].parent].keys, pos) THEN Raise(h, "IndexError")
    ELSE IF Len(h.nodes[L].children) = 0 THEN Raise(h, "IndexError")
    ELSE BorrowLeftFinish(
             LinkFirstChild([h EXCEPT !.nodes[L].children = ListPop(@, -1)],
                            n, At(h.nodes[L].children, -1)),
             n, At(h.nodes[h.nodes[n].parent].keys, pos), split_key, pos)

\* line 255 on: pos = bisect_left(node.parent.keys, split_key)
BorrowLeftPopped(h, n, L, split_key) ==
    IF is_leaf(h, n)
    THEN BorrowLeftLeaf(h, n, L, split_key,
                        bisect_left(h.nodes[h.nodes[n].parent].keys, split_key))
    ELSE BorrowLeftInner(h, n, L, split_key,
                         bisect_left(h.nodes[h.nodes[n].parent].keys, split_key))

\* borrow an element from the brother node on the left (lines 254-266)
BorrowLeft(h, n) ==
    BorrowLeftPopped([h EXCEPT !.nodes[h.nodes[n].left].keys = ListPop(@, -1)],
                     n, h.nodes[n].left, At(h.nodes[h.nodes[n].left].keys, -1))


\* lines 279-280: node.keys.append(key); node.parent.keys[pos-1] = split_key
BorrowRightFinish(h, n, key, split_key, pos) ==
    SetSeparator([h EXCEPT !.nodes[n].keys = Append(@, key)],
                 h.nodes[n].parent, pos - 1, split_key)

\* lines 271-272: key, split_key = split_key, node.right.keys[0];
\* node.values.append(node.right.values.pop(0))
BorrowRightLeaf(h, n, R, popped, pos) ==
    IF Len(h.nodes[R].keys) = 0 THEN Raise(h, "IndexError")
    ELSE IF Len(h.nodes[R].values) = 0 THEN Raise(h, "IndexError")
    ELSE BorrowRightFinish(
             [h EXCEPT !.nodes[R].values = ListPop(@, 0),
                       !.nodes[n].values = Append(@, At(h.nodes[R].values, 0))],
             n, popped, At(h.nodes[R].keys, 0), pos)

\* lines 276-278: child becomes the last child of node
LinkLastChild(h, n, child) ==
    [h EXCEPT !.nodes[child].parent = n,
              !.nodes[child].left = At(h.nodes[n].children, -1),
              !.nodes[child].right = NIL,
              !.nodes[At(h.nodes[n].children, -1)].right = child,
              !.nodes[n].children = Append(@, child)]

\* lines 274-278: key = node.parent.keys[pos]; child = node.right.children.pop(0)
BorrowRightInner(h, n, R, popped, pos) ==
    IF ~InRange(h.nodes[h.nodes[n].parent].keys, pos) THEN Raise(h, "IndexError")
    ELSE IF Len(h.nodes[R].children) = 0 THEN Raise(h, "IndexError")
    ELSE BorrowRightFinish(
             LinkLastChild([h EXCEPT !.nodes[R].children = ListPop(@, 0)],
                           n, At(h.nodes[R].children, 0)),
             n, At(h.nodes[h.nodes[n].parent].keys, pos), popped, pos)

\* line 269 on: pos = bisect_right(node.parent.keys, split_key)
BorrowRightPopped(h, n, R, popped) ==
    IF is_leaf(h, n)
    THEN BorrowRightLeaf(h, n, R, popped,
                         bisect_right(h.nodes[h.nodes[n].parent].keys, popped))
    ELSE BorrowRightInner(h, n, R, popped,
                          bisect_right(h.nodes[h.nodes[n].parent].keys, popped))

\* borrow an element from the brother node on the right (lines 268-280)
BorrowRight(h, n) ==
    BorrowRightPopped([h EXCEPT !.nodes[h.nodes[n].right].keys = ListPop(@, 0)],
                      n, h.nodes[n].right, At(h.nodes[h.nodes[n].right].keys, 0))

\* lines 295-298: join the children of the two nodes
MergeChildren(h, ML, MR, lc, rc) ==
    [h EXCEPT !.nodes[lc].right = rc,
              !.nodes[rc].left = lc,
              !.nodes[ML].children = @ \o h.nodes[MR].children]

MergeReparent(h, ML, MR) == Reparent(h, h.nodes[MR].children, ML)

MergeInner(h, ML, MR) ==
    IF Len(h.nodes[MR].children) = 0 THEN Raise(h, "IndexError")
    ELSE MergeReparent(
             MergeChildren(h, ML, MR, At(h.nodes[ML].children, -1),
                           At(h.nodes[MR].children, 0)),
             ML, MR)

\* lines 290-294
MergeContents(h, ML, MR, split_key) ==
    IF is_leaf(h, ML)
    THEN [h EXCEPT !.nodes[ML].values = @ \o h.nodes[MR].values,
                   !.nodes[ML].next = h.nodes[MR].next]
    ELSE MergeInner(
             [h EXCEPT !.nodes[ML].keys =
                           ListInsert(@, Len(h.nodes[ML].children) - 1, split_key)],
             ML, MR)

\* lines 288-289: if merge_right.right: merge_right.right.left = merge_left
MergeRelink(h, ML, MR) ==
    IF h.nodes[MR].right # NIL THEN [h EXCEPT !.nodes[h.nodes[MR].right].left = ML]
    ELSE h

\* lines 286-287: merge_left.keys += merge_right.keys; merge_left.right = ...
MergeKeys(h, ML, MR, split_key) ==
    IF MR = NIL THEN Raise(h, "AttributeError")
    ELSE MergeContents(
             MergeRelink([h EXCEPT !.nodes[ML].keys = @ \o h.nodes[MR].keys,
                                   !.nodes[ML].right = h.nodes[MR].right],
                         ML, MR),
             ML, MR, split_key)

\* line 285: merge_left.parent.children.pop(pos+1)
MergePopChild(h, ML, MR, P, pos, split_key) ==
    IF ~InRange(h.nodes[P].children, pos + 1) THEN Raise(h, "IndexError")
    ELSE MergeKeys([h EXCEPT !.nodes[P].children = ListPop(@, pos + 1)],
                   ML, MR, split_key)

\* line 284: split_key = merge_left.parent.keys.pop(pos)
MergePopKey(h, ML, MR, P, pos) ==
    IF ~InRange(h.nodes[P].keys, pos) THEN Raise(h, "IndexError")
    ELSE MergePopChild([h EXCEPT !.nodes[P].keys = ListPop(@, pos)],
                       ML, MR, P, pos, At(h.nodes[P].keys, pos))

\* line 283: pos = bisect_right(merge_left.parent.keys, merge_left.keys[0])
MergePair(h, ML, MR) ==
    IF h.nodes[ML].parent = NIL THEN Raise(h, "AttributeError")
    ELSE IF Len(h.nodes[ML].keys) = 0 THEN Raise(h, "IndexError")
    ELSE MergePopKey(h, ML, MR, h.nodes[ML].parent,
                     bisect_right(h.nodes[h.nodes[ML].parent].keys,
                                  At(h.nodes[ML].keys, 0)))

\* merge with the brother on the left or on the right, up to the recursive
\* call (lines 282-298)
Merge(h, n) ==
    IF h.nodes[n].left # NIL THEN MergePair(h, h.nodes[n].left, n)
    ELSE MergePair(h, n, h.nodes[n].right)

\* self._root = node.children.pop(); self._root.parent = None
PopRoot(h, n) ==
    [h EXCEPT !.nodes[n].children = ListPop(@, -1),
              !.root = At(h.nodes[n].children, -1),
              !.nodes[At(h.nodes[n].children, -1)].parent = NIL]

\* the same without the test for node.root
RemoveEmptyRoot_AnyNode(h, n) ==
    IF ~is_leaf(h, n) /\ empty(h, n) THEN PopRoot(h, n) ELSE h

\* remove empty root (lines 248-250)
RemoveEmptyRoot(h, n) ==
    IF is_root(h, n) /\ ~is_leaf(h, n) /\ empty(h, n) THEN PopRoot(h, n) ELSE h

RECURSIVE fix_node(_, _)

\* line 299: recursively check parent nodes
FixParent(h, ML) ==
    IF h.exc # "none" THEN h ELSE fix_node(h, h.nodes[ML].parent)

\* lines 253-299 for a node that is not valid
Rebalance(h, n) ==
    IF h.nodes[n].left # NIL /\ borrowable(h, h.nodes[n].left) THEN BorrowLeft(h, n)
    ELSE IF h.nodes[n].right # NIL /\ borrowable(h, h.nodes[n].right)
         THEN BorrowRight(h, n)
    ELSE FixParent(Merge(h, n),
                   IF h.nodes[n].left # NIL THEN h.nodes[n].left ELSE n)

\* lines 251-252: if node.valid: return
FixValid(h, n) == IF valid(h, n) THEN h ELSE Rebalance(h, n)

fix_node(h, n) == FixValid(RemoveEmptyRoot(h, n), n)

\* ---- BPlusTree._find_target_leaf ----------------------------------------
RECURSIVE find_target_leaf_loop(_, _, _)

\* temp = temp.children[pos]; NIL when pos is out of range
Descend(h, temp, key, pos) ==
    IF ~InRange(h.nodes[temp].children, pos) THEN NIL
    ELSE find_target_leaf_loop(h, At(h.nodes[temp].children, pos), key)

\* the leaf reached from temp (lines 314-317)
find_target_leaf_loop(h, temp, key) ==
    IF is_leaf(h, temp) THEN temp
    ELSE Descend(h, temp, key, bisect_right(h.nodes[temp].keys, key))

find_target_leaf(h, key) == find_target_leaf_loop(h, h.root, key)

\* ---- BPlusTree public methods (hash_func is the default identity) -------
Failed(e) == [exc |-> e, val |-> 0]

\* lines 423-425 of search
SearchAt(h, key, dest, pos) ==
    IF empty(h, dest) THEN Failed("ValueError")
    ELSE IF ~InRange(h.nodes[dest].keys, pos) THEN Failed("IndexError")
    ELSE IF At(h.nodes[dest].keys, pos) # key THEN Failed("ValueError")
    ELSE IF ~InRange(h.nodes[dest].values, pos) THEN Failed("IndexError")
    ELSE [exc |-> "none", val |-> At(h.nodes[dest].values, pos)]

\* line 419: pos = bisect_left(dest.keys, hash_key)
SearchIn(h, key, dest) ==
    IF dest = NIL THEN Failed("IndexError")
    ELSE SearchAt(h, key, dest, bisect_left(h.nodes[dest].keys, key))

\* search(key): the exception raised ("none" when it returns) and the value
search(h, key) == SearchIn(h, key, find_target_leaf(h, key))

\* lines 376-379: only ValueError is caught
Caught(r) ==
    IF r.exc = "ValueError" THEN [exc |-> "none", val |-> FALSE]
    ELSE IF r.exc = "none" THEN [exc |-> "none", val |-> TRUE]
    ELSE [exc |-> r.exc, val |-> FALSE]

\* __contains__(key)
contains(h, key) == Caught(search(h, key))

\* __len__()
length(h) == h.len

\* line 459: self.len += 1, reached when nothing was raised
InsertDone(h) == IF h.exc # "none" THEN h ELSE [h EXCEPT !.len = @ + 1]

\* line 458: self._split_node(dest)
InsertSplit(h, dest) == IF h.exc # "none" THEN h ELSE split_node(h, dest)

\* lines 449-457
InsertAt(h, key, value, update, dest, pos) ==
    IF ~empty(h, dest) /\ At(h.nodes[dest].keys, pos - 1) = key
    THEN IF update
         THEN IF ~InRange(h.nodes[dest].values, pos - 1) THEN Raise(h, "IndexError")
              ELSE [h EXCEPT !.nodes[dest].values = SetAt(@, pos - 1, value)]
         ELSE Raise(h, "ValueError")
    ELSE [h EXCEPT !.nodes[dest].keys = ListInsert(@, pos, key),
                   !.nodes[dest].values = ListInsert(@, pos, value)]

\* line 445: pos = bisect_right(dest.keys, hash_key)
InsertIn(h, key, value, update, dest) ==
    IF dest = NIL THEN Raise(h, "IndexError")
    ELSE InsertDone(InsertSplit(
             InsertAt(h, key, value, update, dest,
                      bisect_right(h.nodes[dest].keys, key)),
             dest))

\* insert(key, value, update)
insert(h, key, value, update) ==
    InsertIn(h, key, value, update, find_target_leaf(h, key))

\* line 487: self.len -= 1, reached when nothing was raised
DeleteDone(h) == IF h.exc # "none" THEN h ELSE [h EXCEPT !.len = @ - 1]

\* lines 482-486
DeleteAt(h, key, dest, pos) ==
    IF empty(h, dest) THEN Raise(h, "ValueError")
    ELSE IF ~InRange(h.nodes[dest].keys, pos) THEN Raise(h, "IndexError")
    ELSE IF At(h.nodes[dest].keys, pos) # key THEN Raise(h, "ValueError")
    ELSE IF ~InRange(h.nodes[dest].values, pos)
         THEN Raise([h EXCEPT !.nodes[dest].keys = ListPop(@, pos)], "IndexError")
    ELSE DeleteDone(fix_node([h EXCEPT !.nodes[dest].keys = ListPop(@, pos),
                                       !.nodes[dest].values = ListPop(@, pos)],
                             dest))

\* line 478: pos = bisect_left(dest.keys, hash_key)
DeleteIn(h, key, dest) ==
    IF dest = NIL THEN Raise(h, "IndexError")
    ELSE DeleteAt(h, key, dest, bisect_left(h.nodes[dest].keys, key))

\* delete(key)
delete(h, key) == DeleteIn(h, key, find_target_leaf(h, key))

\* clear() that installs the fresh node as head leaf only
clear_LeafOnly(h) ==
    [Alloc(h, NIL) EXCEPT !.leaf = Len(h.nodes) + 1]

\* clear()
clear(h) ==
    [Alloc(h, NIL) EXCEPT !.root = Len(h.nodes) + 1, !.leaf = Len(h.nodes) + 1]

\* ---- BPlusTree._iterate_by_slice ----------------------------------------
\* the while loop of the generator (lines 361-367): the pairs yielded and the
\* exception that ends it; a walk longer than fuel steps never ends
RECURSIVE iterate_loop(_, _, _, _, _, _)
iterate_loop(h, lf, pos, stop, out, fuel) ==
    LET ks == h.nodes[lf].keys
        vs == h.nodes[lf].values
    IN  IF fuel = 0 THEN [exc |-> "Endless", out |-> out]
        ELSE IF ~InRange(ks, pos) THEN [exc |-> "IndexError", out |-> out]
        ELSE IF stop # NIL /\ ~(At(ks, pos) < stop) THEN [exc |-> "none", out |-> out]
        ELSE IF ~InRange(vs, pos) THEN [exc |-> "IndexError", out |-> out]
        ELSE LET out2 == Append(out, <<At(ks, pos), At(vs, pos)>>)
             IN  IF pos + 1 >= Len(ks)
                 THEN IF h.nodes[lf].next = NIL THEN [exc |-> "none", out |-> out2]
                      ELSE iterate_loop(h, h.nodes[lf].next, 0, stop, out2, fuel - 1)
                 ELSE iterate_loop(h, lf, pos + 1, stop, out2, fuel - 1)

\* number of keys held by the nodes ns[1..i]
RECURSIVE KeyCount(_, _)
KeyCount(ns, i) == IF i = 0 THEN 0 ELSE Len(ns[i].keys) + KeyCount(ns, i - 1)

\* _iterate_by_slice(slice(start, stop)); NIL stands for None, and no slice
\* at all behaves as slice(None, None)
iterate_by_slice(h, start, stop) ==
    LET Enter(lf, pos) ==
            IF empty(h, lf) THEN [exc |-> "none", out |-> <<>>]
            ELSE iterate_loop(h, lf, pos, stop, <<>>, KeyCount(h.nodes, Len(h.nodes)) + 1)
    IN  IF start # NIL /\ stop # NIL /\ start >= stop
        THEN [exc |-> "ValueError", out |-> <<>>]
        ELSE IF start = NIL THEN Enter(h.leaf, 0)
        ELSE LET lf == find_target_leaf(h, start)
             IN  IF lf = NIL THEN [exc |-> "IndexError", out |-> <<>>]
                 ELSE LET pos == bisect_left(h.nodes[lf].keys, start)
                      IN  IF pos >= Len(h.nodes[lf].keys)
                          THEN IF h.nodes[lf].next = NIL
                               THEN [exc |-> "none", out |-> <<>>]
                               ELSE Enter(h.nodes[lf].next, 0)
                          ELSE Enter(lf, pos)

\* __iter__(): the keys of the pairs
iter_keys(h) ==
    LET r == iterate_by_slice(h, NIL, NIL)
    IN  [exc |-> r.exc, out |-> [i \in 1..Len(r.out) |-> r.out[i][1]]]

\* ---- object identity ----------------------------------------------------
\* every reference held by node nd
Refs(nd) == nd.children \o <<nd.parent, nd.left, nd.right, nd.next>>

\* the positions of queue that hold a node seen neither in acc nor earlier
\* in queue
FreshAt(queue, acc) ==
    {i \in 1..Len(queue) :
        /\ queue[i] # NIL
        /\ \A j \in 1..Len(acc) : acc[j] # queue[i]
        /\ \A j \in 1..(i - 1) : queue[j] # queue[i]}

\* the elements of s at the positions P, in the order of s
Pick(s, P) ==
    [k \in 1..Cardinality(P) |->
        s[CHOOSE i \in P : Cardinality({j \in P : j < i}) = k - 1]]

\* the references held by the nodes of s, node after node
RECURSIVE RefsOf(_, _)
RefsOf(ns, s) ==
    IF s = <<>> THEN <<>> ELSE Refs(ns[Head(s)]) \o RefsOf(ns, Tail(s))

RECURSIVE Reach(_, _, _)

\* the nodes found are visited and their references form the next queue
Visit(ns, found, acc) ==
    IF found = <<>> THEN acc ELSE Reach(ns, RefsOf(ns, found), acc \o found)

\* the nodes that can still be reached from the tree through any reference,
\* in breadth-first order
Reach(ns, queue, acc) == Visit(ns, Pick(queue, FreshAt(queue, acc)), acc)

\* the new address of node x
Index(ord, x) == IF x = NIL THEN NIL ELSE CHOOSE i \in 1..Len(ord) : ord[i] = x

\* node nd with its references renumbered
Renumbered(ord, nd) ==
    [keys |-> nd.keys, values |-> nd.values,
     children |-> [j \in 1..Len(nd.children) |-> Index(ord, nd.children[j])],
     parent |-> Index(ord, nd.parent), left |-> Index(ord, nd.left),
     right |-> Index(ord, nd.right), next |-> Index(ord, nd.next)]

Renumber(h, ord) ==
    [h EXCEPT !.nodes = [i \in 1..Len(ord) |-> Renumbered(ord, h.nodes[ord[i]])],
              !.root = Index(ord, h.root), !.leaf = Index(ord, h.leaf)]

\* addresses carry no meaning: unreachable nodes are dropped and the rest
\* renumbered in reach order
Canon(h) == Renumber(h, Reach(h.nodes, <<h.root, h.leaf>>, <<>>))

\* ---- the state machine --------------------------------------------------
\* the BPlusTree object as the methods see it
Tree == [order |-> order, nodes |-> nodes, root |-> root, leaf |-> leaf,
         len |-> len, exc |-> "none"]

\* the variables take the fields of c
Commit(c) ==
    /\ nodes' = c.nodes
    /\ root' = c.root
    /\ leaf' = c.leaf
    /\ len' = c.len
    /\ exc' = c.exc
    /\ order' = order
    /\ steps' = steps + 1

\* the tree after a method has run
Becomes(h) == Commit(Canon(h))

\* BPlusTree.__init__(order)
Init ==
    /\ order \in Orders
    /\ nodes = <<NewNode(NIL)>>
    /\ root = 1
    /\ leaf = 1
    /\ len = 0
    /\ exc = "none"
    /\ steps = 0
    /\ ref = [k \in Keys |-> 0]
    /\ allowed = TRUE

\* insert(key, value, update)
Insert(k, v, update) ==
    /\ Becomes(insert(Tree, k, v, update))
    /\ allowed' = (update \/ ref[k] = 0)
    /\ ref' = IF update \/ ref[k] = 0 THEN [ref EXCEPT ![k] = v] ELSE ref

\* delete(key)
Delete(k) ==
    /\ Becomes(delete(Tree, k))
    /\ allowed' = (ref[k] # 0)
    /\ ref' = [ref EXCEPT ![k] = 0]

\* clear()
Clear ==
    /\ Becomes(clear(Tree))
    /\ allowed' = TRUE
    /\ ref' = [k \in DOMAIN ref |-> 0]

Next ==
    /\ steps < MaxOps
    /\ \/ \E k \in Keys, v \in Values, u \in BOOLEAN : Insert(k, v, u)
       \/ \E k \in Keys : Delete(k)
       \/ Clear

Spec == Init /\ [][Next]_vars

\* ---- the calls of src/test.py: bptree[k] = k, bptree.delete(k), clear() ---
ShapeInit ==
    /\ order \in Orders
    /\ nodes = <<NewNode(NIL)>>
    /\ root = 1
    /\ leaf = 1
    /\ len = 0
    /\ exc = "none"
    /\ steps = 0
    /\ ref = [k \in ShapeKeys |-> 0]
    /\ allowed = TRUE

\* __setitem__(key, value) with value = key: insert(key, key, update=True)
Put(k) ==
    /\ Becomes(insert(Tree, k, k, TRUE))
    /\ allowed' = TRUE
    /\ ref' = [ref EXCEPT ![k] = k]

ShapeNext ==
    /\ steps < MaxShapeOps
    /\ \/ \E k \in ShapeKeys : Put(k)
       \/ \E k \in ShapeKeys : Delete(k)
       \/ Clear

ShapeSpec == ShapeInit /\ [][ShapeNext]_vars

\* ---- the shape of the tree under the root -------------------------------
Range(s) == {s[i] : i \in 1..Len(s)}

\* the nodes below n through children lists (n included)
RECURSIVE Under(_, _, _)
Under(h, n, fuel) ==
    IF fuel = 0 THEN {n}
    ELSE {n} \cup UNION {Under(h, c, fuel - 1) : c \in Range(h.nodes[n].children)}

TreeNodes == Under(Tree, root, Len(nodes))
TreeLeaves == {n \in TreeNodes : is_leaf(Tree, n)}
Inner == TreeNodes \ TreeLeaves

\* the keys held in the leaves below n
SubtreeKeys(n) ==
    UNION {Range(nodes[l].keys) : l \in {x \in Under(Tree, n, Len(nodes)) : is_leaf(Tree, x)}}

\* the keys stored in the tree, and their number counted leaf by leaf
StoredKeys == SubtreeKeys(root)

RECURSIVE SumKeys(_)
SumKeys(S) ==
    IF S = {} THEN 0
    ELSE LET n == CHOOSE x \in S : TRUE IN Len(nodes[n].keys) + SumKeys(S \ {n})

LeafKeyCount == SumKeys(TreeLeaves)

\* the depths at which leaves sit below n, n being at depth d
RECURSIVE LeafDepths(_, _, _, _)
LeafDepths(h, n, d, fuel) ==
    IF is_leaf(h, n) \/ fuel = 0 THEN {d}
    ELSE UNION {LeafDepths(h, c, d + 1, fuel - 1) : c \in Range(h.nodes[n].children)}

DepthsOf(h) == LeafDepths(h, h.root, 0, Len(h.nodes))

Depths == DepthsOf(Tree)

\* the leftmost leaf below the root
RECURSIVE LeftmostFrom(_, _)
LeftmostFrom(n, fuel) ==
    IF is_leaf(Tree, n) \/ fuel = 0 THEN n
    ELSE LeftmostFrom(nodes[n].children[1], fuel - 1)

Leftmost == LeftmostFrom(root, Len(nodes))

StrictlyIncreasing(s) == \A i \in 1..(Len(s) - 1) : s[i] < s[i + 1]

\* the common depth of the leaves when there is one
Height == CHOOSE d \in Depths : TRUE

\* the nodes without their values
Shape(h) == [i \in 1..Len(h.nodes) |-> [h.nodes[i] EXCEPT !.values = <<>>]]

\* ---- claims -------------------------------------------------------------

\* C1: the tree behaves as a key->value map: a call the map semantics allows
\* completes without error, search(k) returns the value most recently stored
\* for every key inserted and not deleted since, and contains(k) is true
\* exactly for those keys.
C1_BehavesAsMap ==
    /\ allowed => exc = "none"
    /\ \A k \in DOMAIN ref :
          /\ ref[k] # 0 => search(Tree, k) = [exc |-> "none", val |-> ref[k]]
          /\ (contains(Tree, k) = [exc |-> "none", val |-> TRUE]) <=> (ref[k] # 0)

\* C2: for every key k that is not stored, search(k) and delete(k) fail with
\* KeyNotFound (ValueError) and contains(k) returns false, never any other
\* failure.
C2_AbsentKeyNotFound ==
    \A k \in DOMAIN ref :
        k \notin StoredKeys =>
            /\ search(Tree, k).exc = "ValueError"
            /\ delete(Tree, k).exc = "ValueError"
            /\ contains(Tree, k) = [exc |-> "none", val |-> FALSE]

\* C3: walking the next chain from the head leaf visits every stored key
\* exactly once, in strictly increasing order, and the head leaf is the
\* leftmost leaf of the tree.
C3_ChainAscending ==
    LET it == iter_keys(Tree)
    IN  /\ it.exc = "none"
        /\ StrictlyIncreasing(it.out)
        /\ Range(it.out) = StoredKeys
        /\ Len(it.out) = LeafKeyCount
        /\ leaf = Leftmost

\* C4: after every public operation length() equals the total number of keys
\* held in the leaves of the tree.
C4_LengthCountsKeys == length(Tree) = LeafKeyCount

\* C5: every internal node with k keys has exactly k+1 children, its keys are
\* strictly increasing, and every key below children[i] is < keys[i] and
\* every key below children[i+1] is >= keys[i].
C5_Separators ==
    \A n \in Inner :
        LET ks == nodes[n].keys
            cs == nodes[n].children
        IN  /\ Len(cs) = Len(ks) + 1
            /\ StrictlyIncreasing(ks)
            /\ \A i \in 1..Len(ks) :
                  /\ \A x \in SubtreeKeys(cs[i]) : x < ks[i]
                  /\ \A x \in SubtreeKeys(cs[i + 1]) : x >= ks[i]

\* C6: every non-root node holds between ceil(order/2)-1 and order-1 keys,
\* and the root holds at most order-1 keys.
C6_Fanout ==
    \A n \in TreeNodes :
        /\ Len(nodes[n].keys) <= order - 1
        /\ n # root => Len(nodes[n].keys) >= MinKeys(order)

\* C7: all leaves are at the same depth below the root; an insert leaves that
\* depth as it is or adds one level (a split of the root), a delete leaves
\* it as it is or removes one level (collapse of an empty internal root).
C7_DepthStep ==
    /\ (\E k \in ShapeKeys : Put(k)) => (Height' = Height \/ Height' = Height + 1)
    /\ (\E k \in ShapeKeys : Delete(k)) => (Height' = Height \/ Height' = Height - 1)

C7_LeavesSameDepth == [](Cardinality(Depths) = 1) /\ [][C7_DepthStep]_vars

\* a tree grown by two root splits from which the next delete collapses the
\* root and takes one level away
C7_Witness ==
    /\ Depths = {2}
    /\ steps < MaxShapeOps
    /\ \E k \in ShapeKeys :
          LET h == delete(Tree, k)
          IN  h.exc = "none" /\ DepthsOf(h) = {1}

\* C8: the left/right links are symmetric and link exactly the adjacent
\* children of one parent.
Adjacent(a, b) ==
    \E p \in Inner : \E i \in 1..(Len(nodes[p].children) - 1) :
        nodes[p].children[i] = a /\ nodes[p].children[i + 1] = b

C8_SiblingLinks ==
    \A n \in TreeNodes :
        /\ nodes[n].right # NIL =>
              nodes[nodes[n].right].left = n /\ Adjacent(n, nodes[n].right)
        /\ nodes[n].left # NIL =>
              nodes[nodes[n].left].right = n /\ Adjacent(nodes[n].left, n)
        /\ \A m \in TreeNodes : Adjacent(n, m) => nodes[n].right = m

\* C9: insert(k, v, update=True) on a stored key k overwrites the value of k
\* and changes nothing else: length() and the keys and shape of every node
\* are as before the call.
C9_UpdateKeepsShape ==
    \A k \in StoredKeys \cap DOMAIN ref : \A v \in Values :
        LET h == Canon(insert(Tree, k, v, TRUE))
        IN  search(Tree, k).exc = "none" =>
               /\ h.exc = "none"
               /\ search(h, k) = [exc |-> "none", val |-> v]
               /\ length(h) = length(Tree)
               /\ Shape(h) = Shape(Tree)

\* C10: after clear() the root is a fresh empty leaf that is also the head
\* leaf and length() returns 0; a second clear() gives the same state.
C10_ClearResets ==
    LET h == Canon(clear(Tree))
    IN  /\ h.nodes = <<NewNode(NIL)>>
        /\ h.root = 1 /\ h.leaf = 1
        /\ length(h) = 0
        /\ Canon(clear(h)) = h

\* the outcome of a call that raised nothing and yielded nothing
NoPairs == [exc |-> "none", out |-> <<>>]

\* C11: after clear() in any reachable state, contains(k) is false for every
\* key k (the keys stored before the call included), search(k) fails with
\* KeyNotFound (ValueError), and iteration yields no pairs.
C11_ClearEmpties ==
    /\ \A k \in DOMAIN ref :
          /\ contains(clear(Tree), k) = [exc |-> "none", val |-> FALSE]
          /\ search(clear(Tree), k).exc = "ValueError"
    /\ iterate_by_slice(clear(Tree), NIL, NIL) = NoPairs

\* a tree in which a key is found before clear() and no longer after it
C11_Witness ==
    \E k \in DOMAIN ref :
        /\ ref[k] # 0
        /\ search(Tree, k) = [exc |-> "none", val |-> ref[k]]
        /\ search(clear(Tree), k).exc = "ValueError"

\* C12: an operation that fails leaves the tree in its pre-call state:
\* insert(k, v) without update on a stored key k fails with DuplicateKey
\* (ValueError), delete(k) on an absent key fails, and in both cases the node
\* graph, the stored pairs and length() are as before the call.
C12_FailedCallKeepsState ==
    \A k \in DOMAIN ref :
        /\ k \in StoredKeys =>
              \A v \in Values : insert(Tree, k, v, FALSE) = Raise(Tree, "ValueError")
        /\ k \notin StoredKeys =>
              /\ delete(Tree, k).exc # "none"
              /\ delete(Tree, k) = Raise(Tree, delete(Tree, k).exc)

\* the pairs of the reference map with lo <= key <= hi, in ascending order
RECURSIVE RefPairs(_, _)
RefPairs(lo, hi) ==
    IF lo > hi THEN <<>>
    ELSE IF ref[lo] # 0 THEN <<<<lo, ref[lo]>>>> \o RefPairs(lo + 1, hi)
    ELSE RefPairs(lo + 1, hi)

\* the largest key of the reference map's domain
TopKey == CHOOSE k \in DOMAIN ref : \A j \in DOMAIN ref : j <= k

\* the pairs a range request (start, stop) has to yield, NIL standing for an
\* omitted end
Wanted(start, stop) ==
    RefPairs(IF start = NIL THEN 1 ELSE start,
             IF stop = NIL THEN TopKey ELSE stop - 1)

\* the range ends tried: omitted, every key, and one past the largest key
Ends == {NIL} \cup DOMAIN ref \cup {TopKey + 1}

\* C13: in every reachable state, items over [start, stop) yields exactly the
\* stored (key, value) pairs with start <= key < stop, each once, in ascending
\* key order; an omitted start means from the smallest key, an omitted stop
\* means to the largest, a start that is not stored begins at the next larger
\* stored key, and a start beyond all keys yields an empty sequence.
C13_RangeYieldsStored ==
    \A start \in Ends, stop \in Ends :
        (start = NIL \/ stop = NIL \/ start < stop) =>
            iterate_by_slice(Tree, start, stop) =
                [exc |-> "none", out |-> Wanted(start, stop)]

\* ---- BPlusTree.items ----------------------------------------------------
\* slice(start, stop, step), NIL standing for None; given is FALSE when no
\* slice object is passed at all
Slice(start, stop, step) ==
    [given |-> TRUE, start |-> start, stop |-> stop, step |-> step]

NoSlice == [given |-> FALSE, start |-> NIL, stop |-> NIL, step |-> NIL]

\* items(slice_) that never looks at slice_.step
items_AnyStep(h, sl) == iterate_by_slice(h, sl.start, sl.stop)

\* items(slice_): lines 335-339 of _iterate_by_slice, then the rest of it
items(h, sl) ==
    IF ~sl.given THEN iterate_by_slice(h, NIL, NIL)
    ELSE IF sl.step # NIL THEN [exc |-> "ValueError", out |-> <<>>]
    ELSE iterate_by_slice(h, sl.start, sl.stop)

\* the strides tried: omitted, 1 and 2
Strides == {NIL, 1, 2}

\* start and stop are both supplied and start >= stop
Backwards(start, stop) == start # NIL /\ stop # NIL /\ start >= stop

\* C14: a range request fails with InvalidRange (ValueError) and yields no
\* pair whenever start and stop are both supplied with start >= stop (start =
\* stop included) or a stride is supplied, and no other range request fails
\* with InvalidRange.
C14_InvalidRange ==
    /\ items(Tree, NoSlice).exc # "ValueError"
    /\ \A start \in Ends, stop \in Ends, step \in Strides :
          IF step # NIL \/ Backwards(start, stop)
          THEN items(Tree, Slice(start, stop, step)) =
                   [exc |-> "ValueError", out |-> <<>>]
          ELSE items(Tree, Slice(start, stop, step)).exc # "ValueError"

\* a stored key k for which items(k, k) and items(k, k+1, 1) are refused
\* while items(k, k+1) yields the pair of k
C14_Witness ==
    \E k \in DOMAIN ref :
        /\ ref[k] # 0
        /\ items(Tree, Slice(k, k, NIL)).exc = "ValueError"
        /\ items(Tree, Slice(k, k + 1, 1)).exc = "ValueError"
        /\ items(Tree, Slice(k, k + 1, NIL)) =
               [exc |-> "none", out |-> <<<<k, ref[k]>>>>]

\* insert(key, value) followed immediately by delete(key)
insert_delete(h, key, value) ==
    IF insert(h, key, value, FALSE).exc # "none" THEN insert(h, key, value, FALSE)
    ELSE delete(insert(h, key, value, FALSE), key)

\* C15: in every reachable state of a tree of order >= 3 and for every key k
\* that is not stored, insert(k, v) followed immediately by delete(k) both
\* succeed and return the tree to an equivalent state: the same length() and
\* the same ordered sequence of (key, value) pairs along the leaf chain.
C15_InsertDeleteRoundTrip ==
    \A k \in DOMAIN ref \ StoredKeys : \A v \in Values :
        /\ insert_delete(Tree, k, v).exc = "none"
        /\ length(insert_delete(Tree, k, v)) = length(Tree)
        /\ items(insert_delete(Tree, k, v), NoSlice) = items(Tree, NoSlice)

\* ---- insert 1..n in ascending order, then delete 1..n in ascending order -
\* the length n of the run is the size of the reference map's domain; the
\* run stops at the first call that raises
RunLength == Cardinality(DOMAIN ref)

AscInit ==
    /\ order = 3
    /\ nodes = <<NewNode(NIL)>>
    /\ root = 1
    /\ leaf = 1
    /\ len = 0
    /\ exc = "none"
    /\ steps = 0
    /\ \E n \in 1..MaxRun : ref = [k \in 1..n |-> 0]
    /\ allowed = TRUE

\* the next insert of the run: insert(steps+1, steps+1)
AscInsert ==
    /\ exc = "none"
    /\ steps < RunLength
    /\ Insert(steps + 1, steps + 1, FALSE)

\* the next delete of the run: delete(steps-n+1)
AscDelete ==
    /\ exc = "none"
    /\ steps >= RunLength
    /\ steps < 2 * RunLength
    /\ Delete(steps - RunLength + 1)

AscNext == AscInsert \/ AscDelete

AscSpec == AscInit /\ [][AscNext]_vars

\* C16: with order = 3, inserting the keys 1..n in ascending order and then
\* deleting 1..n in ascending order (n up to 20), every insert and every
\* delete completes without error and every intermediate state has all
\* leaves at one depth, every non-root node within the fanout bounds and
\* every internal node's separators in place (invariants 1-3).
C16_AscendingRun ==
    /\ exc = "none"
    /\ Cardinality(Depths) = 1
    /\ C6_Fanout
    /\ C5_Separators

\* ---- insert a list of keys in order, then delete them all in any order --
\* the keys inserted, value = key; the run stops at the first call that raises
DrainKeys == <<5, 8, 10, 15, 16, 17, 18, 6, 7, 9, 19, 20, 21, 22>>

DrainInit ==
    /\ order = 5
    /\ nodes = <<NewNode(NIL)>>
    /\ root = 1
    /\ leaf = 1
    /\ len = 0
    /\ exc = "none"
    /\ steps = 0
    /\ ref = [k \in Range(DrainKeys) |-> 0]
    /\ allowed = TRUE

\* the next insert of the list
DrainInsert ==
    /\ exc = "none"
    /\ steps < Len(DrainKeys)
    /\ Insert(DrainKeys[steps + 1], DrainKeys[steps + 1], FALSE)

\* delete any key that has not been deleted yet
DrainDelete ==
    /\ exc = "none"
    /\ steps >= Len(DrainKeys)
    /\ \E k \in DOMAIN ref : ref[k] # 0 /\ Delete(k)

DrainNext == DrainInsert \/ DrainDelete

DrainSpec == DrainInit /\ [][DrainNext]_vars

\* the tree is a single empty leaf that is root and head leaf, of length 0
IsEmptyTree ==
    /\ length(Tree) = 0
    /\ nodes = <<NewNode(NIL)>>
    /\ root = 1
    /\ leaf = 1

\* C17: whenever every inserted key has been deleted again, the tree is
\* empty: length() = 0 and the root is a single leaf with no keys that is also
\* the head leaf.  In particular, with order = 5, after inserting
\* [5,8,10,15,16,17,18,6,7,9,19,20,21,22] in that order, search(8) = 8 and
\* search(11) fails with KeyNotFound (ValueError), and deleting all 14 keys in
\* any order succeeds call by call and ends in that empty state.
C17_DrainedIsEmpty ==
    /\ exc = "none"
    /\ steps = Len(DrainKeys) =>
          /\ search(Tree, 8) = [exc |-> "none", val |-> 8]
          /\ search(Tree, 11).exc = "ValueError"
    /\ (steps >= Len(DrainKeys) /\ \A k \in DOMAIN ref : ref[k] = 0) => IsEmptyTree

\* ---- insert 1..n in ascending order, then delete keys in any order ------
\* the run stops at the first call that raises
FillInit ==
    /\ order \in Orders
    /\ nodes = <<NewNode(NIL)>>
    /\ root = 1
    /\ leaf = 1
    /\ len = 0
    /\ exc = "none"
    /\ steps = 0
    /\ \E n \in 1..MaxFill : ref = [k \in 1..n |-> 0]
    /\ allowed = TRUE

\* delete any key that has not been deleted yet
FillDelete ==
    /\ exc = "none"
    /\ steps >= RunLength
    /\ \E k \in DOMAIN ref : ref[k] # 0 /\ Delete(k)

FillNext == AscInsert \/ FillDelete

FillSpec == FillInit /\ [][FillNext]_vars

\* ---- the steps inside delete(key) ---------------------------------------
\* delete(key) finds the key in its target leaf and gets as far as _fix_node
Deletes(h, key) ==
    LET dest == find_target_leaf(h, key)
        pos  == bisect_left(h.nodes[dest].keys, key)
    IN  /\ dest # NIL
        /\ ~empty(h, dest)
        /\ InRange(h.nodes[dest].keys, pos)
        /\ At(h.nodes[dest].keys, pos) = key
        /\ InRange(h.nodes[dest].values, pos)

\* the heap and the node with which delete(key) calls _fix_node (line 486)
FixCall(h, key) ==
    LET dest == find_target_leaf(h, key)
        pos  == bisect_left(h.nodes[dest].keys, key)
    IN  [h |-> [h EXCEPT !.nodes[dest].keys = ListPop(@, pos),
                         !.nodes[dest].values = ListPop(@, pos)],
         n |-> dest, found |-> TRUE]

\* no such call
NoCall(h) == [h |-> h, n |-> NIL, found |-> FALSE]

\* the call _fix_node(n) on heap h, in the chain of recursive calls that
\* starts with c, at which branch (one of "left", "right", "merge") is taken
\* for a leaf (leafy) or for an internal node
RECURSIVE FixBranch(_, _, _)
FixBranch(c, branch, leafy) ==
    LET g == RemoveEmptyRoot(c.h, c.n)
        n == c.n
        L == g.nodes[n].left
        R == g.nodes[n].right
        taken == IF L # NIL /\ borrowable(g, L) THEN "left"
                 ELSE IF R # NIL /\ borrowable(g, R) THEN "right"
                 ELSE "merge"
        here == [h |-> g, n |-> n, found |-> TRUE]
    IN  IF ~c.found \/ valid(g, n) THEN NoCall(g)
        ELSE IF taken = branch /\ is_leaf(g, n) = leafy THEN here
        ELSE IF taken # "merge" THEN NoCall(g)
        ELSE LET m  == Merge(g, n)
                 ML == IF L # NIL THEN L ELSE n
             IN  IF m.exc # "none" THEN NoCall(m)
                 ELSE FixBranch([h |-> m, n |-> m.nodes[ML].parent, found |-> TRUE],
                                branch, leafy)

\* the same for delete(key) on heap h
BranchOf(h, key, branch, leafy) ==
    IF Deletes(h, key) THEN FixBranch(FixCall(h, key), branch, leafy) ELSE NoCall(h)

\* the keys held in the leaves below n in heap h
KeysBelow(h, n) ==
    UNION {Range(h.nodes[l].keys) :
              l \in {x \in Under(h, n, Len(h.nodes)) : is_leaf(h, x)}}

\* the separator invariant of heap h: every internal node under the root has
\* one child more than keys, increasing keys, and keys[i] above every key
\* below children[i] and not above any key below children[i+1]
SeparatorsIn(h) ==
    \A n \in {x \in Under(h, h.root, Len(h.nodes)) : ~is_leaf(h, x)} :
        LET ks == h.nodes[n].keys
            cs == h.nodes[n].children
        IN  /\ Len(cs) = Len(ks) + 1
            /\ StrictlyIncreasing(ks)
            /\ \A i \in 1..Len(ks) :
                  /\ \A x \in KeysBelow(h, cs[i]) : x < ks[i]
                  /\ \A x \in KeysBelow(h, cs[i + 1]) : x >= ks[i]

\* what borrowing from the right has to do for the internal node c.n of heap
\* c.h: the parent separator between N and N.right comes down to the end of
\* N.keys, the first child of N.right becomes the last child of N, and the
\* key popped from the front of N.right.keys replaces that separator
BorrowsRightAsSpecified(c) ==
    LET g == c.h
        N == c.n
        R == g.nodes[N].right
        P == g.nodes[N].parent
        a == BorrowRight(g, N)
    IN  /\ a.exc = "none"
        /\ \E i \in 1..Len(g.nodes[P].keys) :
              /\ g.nodes[P].children[i] = N
              /\ g.nodes[P].children[i + 1] = R
              /\ a.nodes[N].keys = Append(g.nodes[N].keys, g.nodes[P].keys[i])
              /\ a.nodes[P].keys =
                     [g.nodes[P].keys EXCEPT ![i] = g.nodes[R].keys[1]]
        /\ a.nodes[N].children = Append(g.nodes[N].children, g.nodes[R].children[1])
        /\ a.nodes[R].keys = Tail(g.nodes[R].keys)
        /\ a.nodes[R].children = Tail(g.nodes[R].children)
        /\ SeparatorsIn(a)

\* C18: when fix(N) borrows from the right sibling of an internal node N, the
\* key appended to N.keys is the old parent separator between N and N.right,
\* the first child of N.right becomes N's last child, and that separator is
\* replaced by the key popped from the front of N.right.keys, wherever
\* N.right sits in the parent (also as its last child), and the separator
\* invariant holds afterwards.
C18_BorrowRightInternal ==
    \A k \in DOMAIN ref :
        BranchOf(Tree, k, "right", FALSE).found =>
            BorrowsRightAsSpecified(BranchOf(Tree, k, "right", FALSE))

\* s without its element at 1-based position i
Without(s, i) == SubSeq(s, 1, i - 1) \o SubSeq(s, i + 1, Len(s))

\* what the merge has to do for the underfull node c.n of heap c.h, with
\* (L, R) = (N.left, N) if N has a left sibling and (N, N.right) otherwise:
\* the parent loses the separator between L and R and the pointer to R, L
\* receives R's keys with its values (leaf) or, after the separator, with its
\* children (internal), and nothing raises
MergesAsSpecified(c) ==
    LET g == c.h
        L == IF g.nodes[c.n].left # NIL THEN g.nodes[c.n].left ELSE c.n
        R == IF g.nodes[c.n].left # NIL THEN c.n ELSE g.nodes[c.n].right
        P == g.nodes[c.n].parent
        a == Merge(g, c.n)
    IN  /\ a.exc = "none"
        /\ R # NIL
        /\ \E i \in 1..Len(g.nodes[P].keys) :
              /\ g.nodes[P].children[i] = L
              /\ g.nodes[P].children[i + 1] = R
              /\ a.nodes[P].keys = Without(g.nodes[P].keys, i)
              /\ a.nodes[P].children = Without(g.nodes[P].children, i + 1)
              /\ IF is_leaf(g, c.n)
                 THEN /\ a.nodes[L].keys = g.nodes[L].keys \o g.nodes[R].keys
                      /\ a.nodes[L].values = g.nodes[L].values \o g.nodes[R].values
                 ELSE /\ a.nodes[L].keys =
                             g.nodes[L].keys \o <<g.nodes[P].keys[i]>> \o g.nodes[R].keys
                      /\ a.nodes[L].children =
                             g.nodes[L].children \o g.nodes[R].children

\* C19: when fix(N) merges, with (L, R) = (N.left, N) if N has a left sibling
\* and (N, N.right) otherwise, it removes from the parent exactly the
\* separator between L and R and the pointer to R, appends R's keys (and
\* values or children) to L, and then fixes the parent; this completes
\* without error for every underfull non-root N, a leftmost N that is left
\* with no keys at all included (order 3 or 4).
C19_Merge ==
    \A k \in DOMAIN ref : \A leafy \in BOOLEAN :
        BranchOf(Tree, k, "merge", leafy).found =>
            /\ MergesAsSpecified(BranchOf(Tree, k, "merge", leafy))
            /\ delete(Tree, k).exc = "none"

\* ---- the steps inside insert(key, value, update) ------------------------
\* the heap and the node with which insert calls _split_node (line 458)
SplitCall(h, key, value, update) ==
    LET dest == find_target_leaf(h, key)
        g    == InsertAt(h, key, value, update, dest,
                         bisect_right(h.nodes[dest].keys, key))
    IN  IF dest = NIL THEN NoCall(h)
        ELSE IF g.exc # "none" THEN NoCall(g)
        ELSE [h |-> g, n |-> dest, found |-> TRUE]

\* one call of _split_node on a full node n, up to its recursive call
\* (lines 211-230)
SplitOnce(h, n) ==
    LET h0  == IF is_root(h, n) THEN RootSplit(h, n) ELSE h
        new == Len(h0.nodes) + 1
        pos == Len(h0.nodes[n].keys) \div 2
        h1  == NewRight(h0, n)
        h2  == IF is_leaf(h1, n) THEN SplitLeaf(h1, n, new, pos)
               ELSE SplitInner(h1, n, new, pos)
    IN  IF h2.exc # "none" THEN h2
        ELSE InsertInParent(h2, h2.nodes[n].parent, At(h1.nodes[n].keys, pos), new)

\* the call _split_node(n) on heap h, in the chain of recursive calls that
\* starts with c, that splits a leaf (leafy) or an internal node
RECURSIVE SplitBranch(_, _)
SplitBranch(c, leafy) ==
    IF ~c.found \/ ~full(c.h, c.n) THEN NoCall(c.h)
    ELSE IF is_leaf(c.h, c.n) = leafy THEN c
    ELSE IF SplitOnce(c.h, c.n).exc # "none" THEN NoCall(c.h)
    ELSE SplitBranch([h |-> SplitOnce(c.h, c.n),
                      n |-> SplitOnce(c.h, c.n).nodes[c.n].parent,
                      found |-> TRUE], leafy)

\* what the split of the full node c.n of heap c.h has to do: split_key =
\* N.keys[floor(|N.keys|/2)] goes into the parent with the new node M as the
\* child immediately to its right; a leaf keeps every key and value, the
\* split key first in M, and chains N -> M -> old N.next; an internal node
\* gives the split key up and its moved children get parent M
SplitsAsSpecified(c) ==
    LET g   == c.h
        N   == c.n
        a   == SplitOnce(g, N)
        M   == Len(g.nodes) + (IF is_root(g, N) THEN 2 ELSE 1)
        pos == Len(g.nodes[N].keys) \div 2
        sk  == g.nodes[N].keys[pos + 1]
        P   == a.nodes[N].parent
        oldkeys == IF is_root(g, N) THEN <<>> ELSE g.nodes[g.nodes[N].parent].keys
        oldchildren ==
            IF is_root(g, N) THEN <<N>> ELSE g.nodes[g.nodes[N].parent].children
    IN  /\ a.exc = "none"
        /\ split_node(g, N) = split_node(a, P)
        /\ \E i \in 1..Len(a.nodes[P].keys) :
              /\ i + 1 <= Len(a.nodes[P].children)
              /\ a.nodes[P].keys[i] = sk
              /\ a.nodes[P].children[i + 1] = M
              /\ Without(a.nodes[P].keys, i) = oldkeys
              /\ Without(a.nodes[P].children, i + 1) = oldchildren
        /\ Len(a.nodes[N].keys) = pos
        /\ IF is_leaf(g, N)
           THEN /\ a.nodes[N].keys \o a.nodes[M].keys = g.nodes[N].keys
                /\ a.nodes[N].values \o a.nodes[M].values = g.nodes[N].values
                /\ Len(a.nodes[N].values) = pos
                /\ a.nodes[M].keys[1] = sk
                /\ a.nodes[N].next = M
                /\ a.nodes[M].next = g.nodes[N].next
           ELSE /\ a.nodes[N].keys \o <<sk>> \o a.nodes[M].keys = g.nodes[N].keys
                /\ sk \notin Range(a.nodes[N].keys) \cup Range(a.nodes[M].keys)
                /\ a.nodes[N].children \o a.nodes[M].children = g.nodes[N].children
                /\ Len(a.nodes[N].children) = pos + 1
                /\ \A x \in Range(a.nodes[M].children) : a.nodes[x].parent = M

\* C20: split(N) of a full node at pos = floor(|N.keys|/2) puts split_key =
\* N.keys[pos] into the parent with the new node M as the child immediately
\* to its right; for a leaf the split key is copied (it remains the first key
\* of M, no key or value is lost or duplicated across N and M, N.next = M and
\* M.next = old N.next), for an internal node it is promoted (it is in
\* neither N nor M afterwards, and every child moved to M has parent = M).
C20_Split ==
    \A k \in DOMAIN ref : \A leafy \in BOOLEAN :
        SplitBranch(SplitCall(Tree, k, k, TRUE), leafy).found =>
            SplitsAsSpecified(SplitBranch(SplitCall(Tree, k, k, TRUE), leafy))

\* ---- the chains of recursive calls of _split_node and _fix_node ---------
\* the number of nodes above n through parent references
RECURSIVE Above(_, _, _)
Above(h, n, fuel) ==
    IF h.nodes[n].parent = NIL \/ fuel = 0 THEN 0
    ELSE 1 + Above(h, h.nodes[n].parent, fuel - 1)

\* a chain that ended (done) or was cut short, after so many calls
Ended(h, calls, done) == [h |-> h, calls |-> calls, done |-> done]

\* self._split_node(node.parent) (line 231): the node of the recursive call
SplitNext(h, n) == h.nodes[n].parent

\* the chain of calls _split_node(n) on heap h, call by call, cut short
\* after fuel calls that split
RECURSIVE SplitClimb(_, _, _, _)
SplitClimb(h, n, calls, fuel) ==
    IF ~full(h, n) THEN Ended(h, calls + 1, TRUE)
    ELSE IF fuel = 0 THEN Ended(h, calls + 1, FALSE)
    ELSE IF SplitOnce(h, n).exc # "none" THEN Ended(SplitOnce(h, n), calls + 1, TRUE)
    ELSE SplitClimb(SplitOnce(h, n), SplitNext(SplitOnce(h, n), n),
                    calls + 1, fuel - 1)

\* self._fix_node(merge_left.parent) (line 299): the node of the recursive call
FixNext(h, ML) == h.nodes[ML].parent

\* merge_left of line 282
MergeLeft(h, n) == IF h.nodes[n].left # NIL THEN h.nodes[n].left ELSE n

\* the chain of calls _fix_node(n) on heap h, call by call, cut short after
\* fuel calls that merge; g is h after lines 248-250
RECURSIVE FixClimb(_, _, _, _)
FixFrom(g, n, calls, fuel) ==
    IF valid(g, n) THEN Ended(g, calls + 1, TRUE)
    ELSE IF g.nodes[n].left # NIL /\ borrowable(g, g.nodes[n].left)
         THEN Ended(BorrowLeft(g, n), calls + 1, TRUE)
    ELSE IF g.nodes[n].right # NIL /\ borrowable(g, g.nodes[n].right)
         THEN Ended(BorrowRight(g, n), calls + 1, TRUE)
    ELSE IF Merge(g, n).exc # "none" THEN Ended(Merge(g, n), calls + 1, TRUE)
    ELSE IF fuel = 0 THEN Ended(Merge(g, n), calls + 1, FALSE)
    ELSE FixClimb(Merge(g, n), FixNext(Merge(g, n), MergeLeft(g, n)),
                  calls + 1, fuel - 1)

FixClimb(h, n, calls, fuel) == FixFrom(RemoveEmptyRoot(h, n), n, calls, fuel)

\* the chain of _split_node calls of insert(key, key, update=True)
SplitChain(h, key) ==
    LET c == SplitCall(h, key, key, TRUE)
    IN  SplitClimb(c.h, c.n, 0, Above(c.h, c.n, Len(c.h.nodes)) + 1)

\* the chain of _fix_node calls of delete(key)
FixChain(h, key) ==
    LET c == FixCall(h, key)
    IN  FixClimb(c.h, c.n, 0, Above(c.h, c.n, Len(c.h.nodes)))

MixInit ==
    /\ order = 3
    /\ nodes = <<NewNode(NIL)>>
    /\ root = 1
    /\ leaf = 1
    /\ len = 0
    /\ exc = "none"
    /\ steps = 0
    /\ ref = [k \in 1..MaxMixKey |-> 0]
    /\ allowed = TRUE

\* insert(k, k) of a key that is not stored
MixInsert ==
    /\ exc = "none"
    /\ steps < MaxMixOps
    /\ \E k \in DOMAIN ref : ref[k] = 0 /\ Insert(k, k, FALSE)

\* delete(k) of a stored key
MixDelete ==
    /\ exc = "none"
    /\ steps < MaxMixOps
    /\ \E k \in DOMAIN ref : ref[k] # 0 /\ Delete(k)

MixNext == MixInsert \/ MixDelete

MixSpec == MixInit /\ [][MixNext]_vars

\* the places <<p, i>> of the child lists of the tree at which n stands
PlacesOf(n) ==
    {pl \in TreeNodes \X (1..(MaxOrder + 2)) :
        /\ pl[2] <= Len(nodes[pl[1]].children)
        /\ nodes[pl[1]].children[pl[2]] = n}

\* C22: after every insert, delete and clear the parent references agree
\* with the child lists: the root has no parent, every node in the children
\* list of a node p has parent = p, and every node of the tree other than the
\* root stands at exactly one place of exactly one child list (the root at
\* none).
C22_ParentsAgree ==
    /\ nodes[root].parent = NIL
    /\ \A p \in TreeNodes : \A i \in 1..Len(nodes[p].children) :
           nodes[nodes[p].children[i]].parent = p
    /\ \A n \in TreeNodes :
           Cardinality(PlacesOf(n)) = IF n = root THEN 0 ELSE 1

====
